---- MODULE Spec2Model ----
(***************************************************************************)
(* crtime: a batch renamer that prefixes every file of one directory with  *)
(* its creation time.  The model follows src/src/main.rs (main) and        *)
(* src/src/lib.rs (Config::new, FsItem::new, FsItem::rename,               *)
(* partition_results, run).                                                *)
(*                                                                         *)
(* Representation                                                          *)
(*   - a path is the sequence of its components (<<"d", "a">> is d/a);     *)
(*   - a creation time is [days, secs, nanos]: whole days since            *)
(*     1970-01-01, the second of that day and the nanosecond of that       *)
(*     second, UTC;                                                        *)
(*   - a directory entry is [name, ino, created, is_dir, nonempty, io]:    *)
(*     ino is the file the name is a link to (two names of one ino are     *)
(*     hard links), io says which read of the entry fails ("ok" when none  *)
(*     does), nonempty whether a directory has content;                    *)
(*   - the file system is a function from the paths present in the target  *)
(*     directory to [id, ino, is_dir, nonempty], id being the name the     *)
(*     path had at start;                                                  *)
(*   - out and errout hold the whole lines that reached the stream; a      *)
(*     println! or eprintln! whose write fails panics, and the process     *)
(*     ends with status 101; of the line that failed nothing, a part       *)
(*     (outPart, errPart name the line, the part is some proper prefix of  *)
(*     its bytes) or, on standard output, which is flushed once more at    *)
(*     exit, all can have reached the stream; errout holds the program's   *)
(*     own lines, not the report the runtime writes of a panic, whose text *)
(*     carries the thread's number and the toolchain's paths;              *)
(*   - the texts of operating-system errors are those of Linux; the sets   *)
(*     of refusals are samples of the errors each call can return, one or  *)
(*     more for every place of the call at which a refusal is decided.     *)
(***************************************************************************)
EXTENDS Integers, Sequences, FiniteSets, TLC

VARIABLES
    pc,        \* position of the process: "main", "run", "confirm", "rename", "exit"
    entries,   \* the content of the target directory, in scan order
    fs,        \* the target directory: path -> [id, ino, is_dir, nonempty]
    scan,      \* run: "unopened", then "opened" or "failed" by read_dir's answer
    args,      \* main: the command line, args[1] the program name
    dir,       \* Config.dir
    items,     \* run: the collected, sorted Vec<FsItem>
    stdinRead, \* bytes consumed from standard input
    reads,     \* number of lines taken from standard input
    line,      \* what stdin.lock().lines().next() returned
    k,         \* index of the next item the lazy rename iterator yields
    results,   \* Result<&FsItem, FsItemRenameError> yielded so far
    oks,       \* run: the collected successes
    errs,      \* run: the collected failures
    attempts,  \* log of the fs::rename calls made: [src, dst, ok]
    out,       \* lines written to standard output
    outPart,   \* the line a part of which follows them, "" when none does
    errout,    \* lines written to standard error
    errPart,   \* the line a part of which follows them, "" when none does
    exitCode   \* process exit status, NoExit while running

vars == <<pc, entries, fs, scan, args, dir, items, stdinRead, reads, line, k, results,
          oks, errs, attempts, out, outPart, errout, errPart, exitCode>>

\* Option<T>
None == [some |-> FALSE]
Some(v) == [some |-> TRUE, val |-> v]
\* exitCode while the process runs
NoExit == -1
\* exit status of a process whose main thread panicked
PanicExit == 101

(***************************************************************************)
(* Bounds                                                                  *)
(***************************************************************************)
\* most entries in the scanned directory
MaxEntries == 2

(***************************************************************************)
(* Generic helpers                                                         *)
(***************************************************************************)
RECURSIVE Concat(_)
\* the strings of a sequence joined into one string
Concat(s) == IF s = <<>> THEN "" ELSE Head(s) \o Concat(Tail(s))

Range(s) == {s[i] : i \in 1..Len(s)}

\* sequences over S of length at most n
SeqUpTo(S, n) == UNION {[1..m -> S] : m \in 0..n}

Abs(n) == IF n < 0 THEN -n ELSE n

(***************************************************************************)
(* chrono: DateTime<Utc> and its "%Y%m%d%M%S" formatting                   *)
(***************************************************************************)
Digit(d) == <<"0", "1", "2", "3", "4", "5", "6", "7", "8", "9">>[d + 1]

RECURSIVE Decimal(_)
\* decimal digits of n >= 0
Decimal(n) == IF n < 10 THEN Digit(n) ELSE Decimal(n \div 10) \o Digit(n % 10)

RECURSIVE Zeros(_)
Zeros(n) == IF n <= 0 THEN "" ELSE "0" \o Zeros(n - 1)

\* n >= 0 zero-padded to at least w digits
Pad(n, w) == Zeros(w - Len(Decimal(n))) \o Decimal(n)

\* proleptic Gregorian date of the day `days` after 1970-01-01
CivilFromDays(days) ==
    LET z   == days + 719468
        era == z \div 146097
        doe == z - era * 146097
        yoe == (doe - doe \div 1460 + doe \div 36524 - doe \div 146096) \div 365
        doy == doe - (365 * yoe + yoe \div 4 - yoe \div 100)
        mp  == (5 * doy + 2) \div 153
        d   == doy - (153 * mp + 2) \div 5 + 1
        m   == IF mp < 10 THEN mp + 3 ELSE mp - 9
        y   == yoe + era * 400 + (IF m <= 2 THEN 1 ELSE 0)
    IN  [year |-> y, month |-> m, day |-> d]

\* %Y: four digits, and a sign before years outside 0..9999
FormatYear(y) ==
    IF 0 <= y /\ y < 10000 THEN Pad(y, 4)
    ELSE (IF y < 0 THEN "-" ELSE "+") \o Pad(Abs(y), 4)

\* faulty variant of FormatCreated: "%Y%m%d%H%M", hours and minutes instead of
\* minutes and seconds
FormatCreatedHoursMinutes(t) ==
    LET c == CivilFromDays(t.days)
    IN  FormatYear(c.year) \o Pad(c.month, 2) \o Pad(c.day, 2)
            \o Pad(t.secs \div 3600, 2) \o Pad((t.secs \div 60) % 60, 2)

\* created.format("%Y%m%d%M%S")
FormatCreated(t) ==
    LET c == CivilFromDays(t.days)
    IN  FormatYear(c.year) \o Pad(c.month, 2) \o Pad(c.day, 2)
            \o Pad((t.secs \div 60) % 60, 2) \o Pad(t.secs % 60, 2)

\* a.created.partial_cmp(&b.created) is Less
TimeLess(a, b) ==
    \/ a.days < b.days
    \/ (a.days = b.days /\ a.secs < b.secs)
    \/ (a.days = b.days /\ a.secs = b.secs /\ a.nanos < b.nanos)

(***************************************************************************)
(* std::path                                                               *)
(***************************************************************************)
\* Path::new(s) for a one-component s
PathNew(s) == <<s>>

\* path.parent(): None for the empty path
Parent(path) == IF path = <<>> THEN None ELSE Some(SubSeq(path, 1, Len(path) - 1))

\* path.iter().last(): None for the empty path
LastComponent(path) == IF path = <<>> THEN None ELSE Some(path[Len(path)])

\* parent.join(name) for a relative one-component name
Join(parent, name) == Append(parent, name)

\* a file name that is not valid UTF-8 (the text stands for its bytes)
NonUtf8Name == "\\xFF"

\* OsStr::to_str: None unless the name is valid UTF-8
ToStr(os) == IF os = NonUtf8Name THEN None ELSE Some(os)

(***************************************************************************)
(* FsItem                                                                  *)
(***************************************************************************)
Ok(v) == [ok |-> TRUE, val |-> v]
Err(e) == [ok |-> FALSE, val |-> e]

\* faulty variant of NewName: the original name is left out
NewNameWithoutName(created, name) == FormatCreated(created) \o " "

\* format!("{} {}", created.format("%Y%m%d%M%S"), name)
NewName(created, name) == FormatCreated(created) \o " " \o name

\* faulty variant of FsItemNew: the new name is joined to the file's own path, not to
\* its parent
FsItemNewJoinPath(d, e) ==
    IF e.io # "ok" \/ e.is_dir \/ e.name = NonUtf8Name THEN Err("Io")
    ELSE Ok([created |-> e.created, name |-> e.name,
             new_name |-> NewName(e.created, e.name), path |-> Join(d, e.name),
             new_path |-> Join(Join(d, e.name), NewName(e.created, e.name))])

\* FsItem::new on the entry e that the scan of directory d yields
FsItemNew(d, e) ==
    IF e.io = "entry" THEN Err("Io")
    ELSE LET path == Join(d, e.name) IN
         IF e.io = "metadata" THEN Err("Io")
         ELSE IF e.io = "created" THEN Err("Io")
         ELSE IF e.is_dir THEN Err("ItemIsDir")
         ELSE IF ~LastComponent(path).some THEN Err("NameFailed")
         ELSE IF ~ToStr(LastComponent(path).val).some THEN Err("NameFailed")
         ELSE LET name == ToStr(LastComponent(path).val).val
                  new_name == NewName(e.created, name)
              IN  IF ~Parent(path).some THEN Err("ParentFailed")
                  ELSE Ok([created |-> e.created, name |-> name,
                           new_name |-> new_name, path |-> path,
                           new_path |-> Join(Parent(path).val, new_name)])

\* no refusal
NoRefusal == [stage |-> "none", reason |-> ""]

\* what the operating system answers when it refuses a rename for a reason
\* the directory's content does not show.  stage is the place of rename(2)
\* that decides, in the order of the call: "lookup" (the walk to the two
\* parent directories: search permission, a read-only mount), "target" (the lookup of the
\* target name, after that of the source: a name longer than the file system
\* allows), "check" (the permission to change the directory, an immutable
\* file or a sticky directory), "mount" (source or target is a mount point,
\* after the types of the two are compared) or "commit" (the file system's
\* own work).  One or two answers stand for each stage; others (an
\* input/output error at "commit", say) take the same path with another text.
OsRefusals ==
    {[stage |-> "lookup", reason |-> "Permission denied (os error 13)"],
     [stage |-> "lookup", reason |-> "Read-only file system (os error 30)"],
     [stage |-> "target", reason |-> "File name too long (os error 36)"],
     [stage |-> "check", reason |-> "Permission denied (os error 13)"],
     [stage |-> "check", reason |-> "Operation not permitted (os error 1)"],
     [stage |-> "mount", reason |-> "Device or resource busy (os error 16)"],
     [stage |-> "commit", reason |-> "No space left on device (os error 28)"]}

\* fs::rename(src, dst) on the file system fsys; refusal: the operating
\* system's answer when it refuses the call, NoRefusal when it does not.
\* Source and target that are links to one file: success, nothing changes.
FsRename(fsys, src, dst, refusal) ==
    IF refusal.stage = "lookup"
    THEN [ok |-> FALSE, fs |-> fsys, reason |-> refusal.reason]
    ELSE IF src \notin DOMAIN fsys
    THEN [ok |-> FALSE, fs |-> fsys, reason |-> "No such file or directory (os error 2)"]
    ELSE IF refusal.stage = "target"
    THEN [ok |-> FALSE, fs |-> fsys, reason |-> refusal.reason]
    ELSE IF dst \in DOMAIN fsys /\ fsys[dst].ino = fsys[src].ino
    THEN [ok |-> TRUE, fs |-> fsys, reason |-> ""]
    ELSE IF refusal.stage = "check"
    THEN [ok |-> FALSE, fs |-> fsys, reason |-> refusal.reason]
    ELSE IF dst \in DOMAIN fsys /\ fsys[dst].is_dir /\ ~fsys[src].is_dir
    THEN [ok |-> FALSE, fs |-> fsys, reason |-> "Is a directory (os error 21)"]
    ELSE IF dst \in DOMAIN fsys /\ ~fsys[dst].is_dir /\ fsys[src].is_dir
    THEN [ok |-> FALSE, fs |-> fsys, reason |-> "Not a directory (os error 20)"]
    ELSE IF refusal.stage = "mount"
    THEN [ok |-> FALSE, fs |-> fsys, reason |-> refusal.reason]
    ELSE IF dst \in DOMAIN fsys /\ fsys[dst].is_dir /\ fsys[dst].nonempty
    THEN [ok |-> FALSE, fs |-> fsys, reason |-> "Directory not empty (os error 39)"]
    ELSE IF refusal.stage = "commit"
    THEN [ok |-> FALSE, fs |-> fsys, reason |-> refusal.reason]
    ELSE [ok |-> TRUE,
          fs |-> [p \in (DOMAIN fsys \ {src}) \cup {dst} |->
                     IF p = dst THEN fsys[src] ELSE fsys[p]],
          reason |-> ""]

\* FsItem::rename: Ok(self) or Err(FsItemRenameError {item, reason})
FsItemRename(item, r) ==
    IF r.ok THEN Ok(item) ELSE Err([item |-> item, reason |-> r.reason])

(***************************************************************************)
(* partition_results                                                       *)
(***************************************************************************)
IsOk(r) == r.ok
IsErr(r) == ~r.ok
Unwrap(s) == [i \in 1..Len(s) |-> s[i].val]

RECURSIVE Reverse(_)
Reverse(s) == IF s = <<>> THEN <<>> ELSE Append(Reverse(Tail(s)), Head(s))

\* faulty variant of partition_results: the failures come out in reverse order
partition_results_reversed(rs) ==
    [oks |-> Unwrap(SelectSeq(rs, IsOk)), errs |-> Reverse(Unwrap(SelectSeq(rs, IsErr)))]

\* faulty variant of partition_results: every result is unwrapped into the successes too
partition_results_all_ok(rs) ==
    [oks |-> [i \in 1..Len(rs) |-> IF rs[i].ok THEN rs[i].val ELSE rs[i].val.item],
     errs |-> Unwrap(SelectSeq(rs, IsErr))]

partition_results(rs) ==
    [oks |-> Unwrap(SelectSeq(rs, IsOk)), errs |-> Unwrap(SelectSeq(rs, IsErr))]

(***************************************************************************)
(* run: collection and ordering                                            *)
(***************************************************************************)
RECURSIVE Yielded(_)
\* what the iterator of read_dir yields of the content es: the entries in
\* order, up to and with the first one whose read fails; the iterator ends
\* at its first error
Yielded(es) ==
    IF es = <<>> THEN <<>>
    ELSE IF Head(es).io = "entry" THEN <<Head(es)>>
    ELSE <<Head(es)>> \o Yielded(Tail(es))

\* dir.map(FsItem::new).filter_map(Result::ok).collect()
Collect(d, es) ==
    LET ys == Yielded(es)
        rs == [i \in 1..Len(ys) |-> FsItemNew(d, ys[i])]
    IN  Unwrap(SelectSeq(rs, IsOk))

RECURSIVE InsertByCreated(_, _)
\* x put behind every element that is not later than it
InsertByCreated(s, x) ==
    IF s = <<>> THEN <<x>>
    ELSE IF TimeLess(x.created, Head(s).created) THEN <<x>> \o s
    ELSE <<Head(s)>> \o InsertByCreated(Tail(s), x)

RECURSIVE InsertByCreatedUnstable(_, _)
\* x put before the first element that is not earlier than it
InsertByCreatedUnstable(s, x) ==
    IF s = <<>> THEN <<x>>
    ELSE IF ~TimeLess(Head(s).created, x.created) THEN <<x>> \o s
    ELSE <<Head(s)>> \o InsertByCreatedUnstable(Tail(s), x)

RECURSIVE SortUnstable(_)
\* faulty variant of SortByCreated: equal elements end up in reverse order
SortUnstable(s) ==
    IF s = <<>> THEN <<>>
    ELSE InsertByCreatedUnstable(SortUnstable(SubSeq(s, 1, Len(s) - 1)), s[Len(s)])

RECURSIVE SortByCreated(_)
\* items.sort_by(|a, b| a.created.partial_cmp(&b.created).unwrap()): stable
SortByCreated(s) ==
    IF s = <<>> THEN <<>>
    ELSE InsertByCreated(SortByCreated(SubSeq(s, 1, Len(s) - 1)), s[Len(s)])

(***************************************************************************)
(* run: the confirmation line                                              *)
(***************************************************************************)
\* BufRead::read_line: the bytes up to and including the first "\n"
RECURSIVE ReadLineBytes(_)
ReadLineBytes(bytes) ==
    IF bytes = <<>> THEN <<>>
    ELSE IF Head(bytes) = "\n" THEN <<"\n">>
    ELSE <<Head(bytes)>> \o ReadLineBytes(Tail(bytes))

\* Lines::next: None at end of stream, Err on a failed read, else the line
\* without its "\n" or "\r\n"
LinesNext(input) ==
    IF input.fails THEN [tag |-> "Err", text |-> ""]
    ELSE LET buf == ReadLineBytes(input.bytes)
             n   == Len(buf)
         IN  IF n = 0 THEN [tag |-> "None", text |-> ""]
             ELSE IF buf[n] = "\n"
                  THEN IF n >= 2 /\ buf[n - 1] = "\r"
                       THEN [tag |-> "Ok", text |-> Concat(SubSeq(buf, 1, n - 2))]
                       ELSE [tag |-> "Ok", text |-> Concat(SubSeq(buf, 1, n - 1))]
                  ELSE [tag |-> "Ok", text |-> Concat(buf)]

\* Some(Ok(ref line)) if line == "Y"
Confirmed(l) == l.tag = "Ok" /\ l.text = "Y"

(***************************************************************************)
(* Reporting                                                               *)
(***************************************************************************)
PreviewLine(item) == "Rename: " \o item.name \o " -> " \o item.new_name
OkLine(item) == "- " \o item.name \o " -> " \o item.new_name
ErrLine(e) == "- " \o e.item.name \o " -> " \o e.item.new_name \o ": " \o e.reason
PreviewLines(s) == [i \in 1..Len(s) |-> PreviewLine(s[i])]
OkLines(s) == [i \in 1..Len(s) |-> OkLine(s[i])]
ErrLines(s) == [i \in 1..Len(s) |-> ErrLine(s[i])]

(***************************************************************************)
(* The environment: command lines, directories, standard input             *)
(***************************************************************************)
\* the one directory that exists
TargetDir == <<"d">>

\* command lines: args[1] is the program name
ArgVectors ==
    {<<>>, <<"crtime">>, <<"crtime", "d">>, <<"crtime", "nodir">>,
     <<"crtime", "file">>, <<"crtime", "nodir", "extra">>,
     <<"crtime", NonUtf8Name>>, <<"crtime", "d", NonUtf8Name>>}

\* 2023-07-04T00:09:05Z and 2023-07-04T01:09:05Z: one hour apart, so the
\* same minute and second
T1 == [days |-> 19542, secs |-> 545, nanos |-> 0]
T2 == [days |-> 19542, secs |-> 4145, nanos |-> 0]
\* 10000-01-01T23:59:58Z: a year of five digits
T3 == [days |-> 2932897, secs |-> 86398, nanos |-> 0]
\* 2023-07-04T00:09:05.9Z: the second of T1, later within it
T1Late == [days |-> 19542, secs |-> 545, nanos |-> 900000000]

File(n, t) ==
    [name |-> n, ino |-> n, created |-> t, is_dir |-> FALSE, nonempty |-> FALSE,
     io |-> "ok"]
\* a second name of the file whose first name is m
HardLink(n, m, t) ==
    [name |-> n, ino |-> m, created |-> t, is_dir |-> FALSE, nonempty |-> FALSE,
     io |-> "ok"]
Directory(n, full) ==
    [name |-> n, ino |-> n, created |-> T1, is_dir |-> TRUE, nonempty |-> full,
     io |-> "ok"]
\* an entry one of whose reads fails: io is "entry" (the scan yields an
\* error in its place and ends), "metadata" (entry.metadata() fails) or
\* "created" (the platform has no creation time for it); its created field
\* is never read
Broken(n, i) ==
    [name |-> n, ino |-> n, created |-> T1, is_dir |-> FALSE, nonempty |-> FALSE,
     io |-> i]

\* the name FsItem::new derives for a file called "a" that was created at T1
\* or T2
StampedName == "202307040905 a"

\* the entries a directory can hold
EntryUniverse ==
    {File(NonUtf8Name, T1)}
    \cup {File("a", T1)}
    \cup {File("b", t) : t \in {T1, T1Late, T3}}
    \cup {Directory("b", FALSE)}
    \cup {Broken("b", i) : i \in {"entry", "metadata", "created"}}
    \cup {File(StampedName, T2), HardLink(StampedName, "a", T1),
          Directory(StampedName, TRUE)}

\* directories: at most MaxEntries entries, no name twice, the names of one
\* file agree on what they name
Directories ==
    {es \in SeqUpTo(EntryUniverse, MaxEntries) :
        \A i, j \in 1..Len(es) :
            i # j => /\ es[i].name # es[j].name
                     /\ (es[i].ino = es[j].ino => es[i].created = es[j].created)}

\* the directory's content before the run
InitialFs(es) ==
    [p \in {Join(TargetDir, es[i].name) : i \in 1..Len(es)} |->
        LET e == CHOOSE e \in Range(es) : Join(TargetDir, e.name) = p
        IN  [id |-> e.name, ino |-> e.ino, is_dir |-> e.is_dir,
             nonempty |-> e.nonempty]]

\* a path that is a regular file
RegularFile == <<"file">>

\* what the operating system answers when it refuses to open a directory for
\* a reason the path does not show (permissions, a failing device, ...)
ReadDirRefusals ==
    {"Permission denied (os error 13)", "Input/output error (os error 5)",
     "Too many open files (os error 24)",
     "Too many levels of symbolic links (os error 40)"}

\* config.dir.read_dir(); refusal: the operating system's answer when it
\* refuses the call, "" when it does not
ReadDir(d, es, refusal) ==
    IF refusal # "" THEN Err(refusal)
    ELSE IF d = TargetDir THEN Ok(es)
    ELSE IF d = RegularFile THEN Err("Not a directory (os error 20)")
    ELSE Err("No such file or directory (os error 2)")

\* println! of each of lines in turn: all are written, or the println! of the
\* first n succeed and the write of the next line fails, which panics; of
\* that line nothing, a part, or (buffered, and flushed at exit) all reaches
\* standard output
Println(lines) ==
    {[ok |-> TRUE, n |-> Len(lines), out |-> lines, part |-> ""]}
    \cup {[ok |-> FALSE, n |-> n, out |-> SubSeq(lines, 1, n), part |-> ""] :
             n \in 0..(Len(lines) - 1)}
    \cup {[ok |-> FALSE, n |-> n, out |-> SubSeq(lines, 1, n), part |-> lines[n + 1]] :
             n \in 0..(Len(lines) - 1)}
    \cup {[ok |-> FALSE, n |-> n, out |-> SubSeq(lines, 1, n + 1), part |-> ""] :
             n \in 0..(Len(lines) - 1)}

\* eprintln! of l, written piece by piece without a buffer: all of it is
\* written, or a write fails, which panics, with nothing or a part of the
\* line on standard error
Eprintln(l) ==
    {[ok |-> TRUE, err |-> <<l>>, part |-> ""],
     [ok |-> FALSE, err |-> <<>>, part |-> ""],
     [ok |-> FALSE, err |-> <<>>, part |-> l]}

\* first lines that can wait on standard input, without their end
StdinLines ==
    {<<>>, <<"Y">>, <<"y">>, <<"Y", " ">>, <<"y", "e", "s">>, <<"Y", "\r">>}

\* how a line ends: at the end of the stream, or with an end-of-line marker
\* and a further line
LineEnds == {<<>>, <<"\n">>, <<"\r", "\n">>, <<"\n", "Y", "\n">>}

\* what waits on standard input: bytes, or a stream whose read fails
StdinInputs ==
    {[bytes |-> l \o e, fails |-> FALSE] : l \in StdinLines, e \in LineEnds}
    \cup {[bytes |-> <<>>, fails |-> TRUE]}

(***************************************************************************)
(* The process                                                             *)
(***************************************************************************)
Unread == [tag |-> "Unread", text |-> ""]

Init ==
    /\ pc = "main"
    /\ entries \in Directories
    /\ fs = InitialFs(entries)
    /\ scan = "unopened"
    /\ args = <<>>
    /\ dir = <<>>
    /\ items = <<>>
    /\ stdinRead = <<>>
    /\ reads = 0
    /\ line = Unread
    /\ k = 0
    /\ results = <<>>
    /\ oks = <<>>
    /\ errs = <<>>
    /\ attempts = <<>>
    /\ out = <<>>
    /\ outPart = ""
    /\ errout = <<>>
    /\ errPart = ""
    /\ exitCode = NoExit

\* Config::new
ConfigNew(argv) ==
    IF Len(argv) < 2 THEN Err("Not enough arguments")
    ELSE Ok([dir |-> PathNew(argv[2])])

\* env::args().collect(): panics when an argument is not valid Unicode
ArgsCollect(argv) ==
    IF \E i \in 1..Len(argv) : ~ToStr(argv[i]).some THEN Err("panic") ELSE Ok(argv)

\* main up to the call of run
Main ==
    /\ pc = "main"
    /\ \E argv \in ArgVectors :
        LET collected == ArgsCollect(argv)
            config    == ConfigNew(collected.val)
        IN
        /\ args' = argv
        /\ IF ~collected.ok
           THEN /\ exitCode' = PanicExit
                /\ pc' = "exit"
                /\ UNCHANGED <<dir, errout, errPart>>
           ELSE IF ~config.ok
           THEN \E e \in Eprintln("Problem with parsing arguments: " \o config.val) :
                    /\ errout' = errout \o e.err
                    /\ errPart' = e.part
                    /\ exitCode' = IF e.ok THEN 1 ELSE PanicExit
                    /\ pc' = "exit"
                    /\ dir' = dir
           ELSE /\ dir' = config.val.dir
                /\ pc' = "run"
                /\ UNCHANGED <<errout, errPart, exitCode>>
    /\ UNCHANGED <<entries, fs, scan, items, stdinRead, reads, line, k, results, oks,
                   errs, attempts, out, outPart>>

\* run up to the read of the confirmation line: scan, collect, sort, preview
Scan ==
    /\ pc = "run"
    /\ \E refusal \in ReadDirRefusals \cup {""} :
        LET scanned == ReadDir(dir, entries, refusal)
            sorted  == SortByCreated(Collect(dir, scanned.val))
            lines   == <<"Directory: " \o Concat(dir)>>
                           \o (IF scanned.ok THEN PreviewLines(sorted) ELSE <<>>)
        IN  \E w \in Println(lines) :
            /\ out' = out \o w.out
            /\ outPart' = w.part
            /\ IF w.n = 0
               THEN /\ exitCode' = PanicExit
                    /\ pc' = "exit"
                    /\ UNCHANGED <<scan, items, errout, errPart>>
               ELSE IF ~scanned.ok
               THEN \E e \in Eprintln("Application error: " \o scanned.val) :
                        /\ errout' = errout \o e.err
                        /\ errPart' = e.part
                        /\ scan' = "failed"
                        /\ exitCode' = IF e.ok THEN 1 ELSE PanicExit
                        /\ pc' = "exit"
                        /\ items' = items
               ELSE /\ items' = sorted
                    /\ scan' = "opened"
                    /\ exitCode' = IF w.ok THEN exitCode ELSE PanicExit
                    /\ pc' = IF w.ok THEN "confirm" ELSE "exit"
                    /\ UNCHANGED <<errout, errPart>>
    /\ UNCHANGED <<entries, fs, args, dir, stdinRead, reads, line, k, results, oks,
                   errs, attempts>>

\* the match on stdin.lock().lines().next(); the cancelled branch returns
ReadLine ==
    /\ pc = "confirm"
    /\ \E input \in StdinInputs :
        /\ line' = LinesNext(input)
        /\ stdinRead' = IF input.fails THEN <<>> ELSE ReadLineBytes(input.bytes)
    /\ reads' = reads + 1
    /\ IF Confirmed(line')
       THEN /\ pc' = "rename"
            /\ k' = 1
            /\ UNCHANGED <<out, outPart, exitCode>>
       ELSE \E w \in Println(<<"Renaming cancelled.">>) :
                /\ out' = out \o w.out
                /\ outPart' = w.part
                /\ exitCode' = IF w.ok THEN 0 ELSE PanicExit
                /\ pc' = "exit"
                /\ k' = k
    /\ UNCHANGED <<entries, fs, scan, args, dir, items, results, oks, errs, attempts,
                   errout, errPart>>

\* faulty variant of RenameStep: the first failure ends the iteration
RenameStepStopOnFailure ==
    /\ pc = "rename"
    /\ k <= Len(items)
    /\ \E refusal \in OsRefusals \cup {NoRefusal} :
        LET item == items[k]
            r    == FsRename(fs, item.path, item.new_path, refusal)
        IN  /\ fs' = r.fs
            /\ results' = Append(results, FsItemRename(item, r))
            /\ attempts' = Append(attempts,
                              [src |-> item.path, dst |-> item.new_path, ok |-> r.ok])
            /\ k' = IF r.ok THEN k + 1 ELSE Len(items) + 1
    /\ UNCHANGED <<pc, entries, scan, args, dir, items, stdinRead, reads, line, oks, errs, out,
                   outPart, errout, errPart, exitCode>>

\* one step of items.iter().map(|item| item.rename()) driven by partition
RenameStep ==
    /\ pc = "rename"
    /\ k <= Len(items)
    /\ \E refusal \in OsRefusals \cup {NoRefusal} :
        LET item == items[k]
            r    == FsRename(fs, item.path, item.new_path, refusal)
        IN  /\ fs' = r.fs
            /\ results' = Append(results, FsItemRename(item, r))
            /\ attempts' = Append(attempts,
                              [src |-> item.path, dst |-> item.new_path, ok |-> r.ok])
    /\ k' = k + 1
    /\ UNCHANGED <<pc, entries, scan, args, dir, items, stdinRead, reads, line, oks, errs, out,
                   outPart, errout, errPart, exitCode>>

\* the iterator is exhausted: partition, print both lists, return
Report ==
    /\ pc = "rename"
    /\ k > Len(items)
    /\ LET p == partition_results(results)
       IN  /\ oks' = p.oks
           /\ errs' = p.errs
           /\ \E w \in Println(<<"\nRenamed items:">> \o OkLines(p.oks)
                                 \o <<"\nFailed:">> \o ErrLines(p.errs) \o <<"Ok">>) :
                /\ out' = out \o w.out
                /\ outPart' = w.part
                /\ exitCode' = IF w.ok THEN 0 ELSE PanicExit
    /\ pc' = "exit"
    /\ UNCHANGED <<entries, fs, scan, args, dir, items, stdinRead, reads, line, k, results,
                   attempts, errout, errPart>>

Next == Main \/ Scan \/ ReadLine \/ RenameStep \/ Report

Spec == Init /\ [][Next]_vars

(***************************************************************************)
(* Vocabulary of the properties                                            *)
(***************************************************************************)
\* the scan succeeded and the collection is built
Scanned == pc \in {"confirm", "rename"} \/ (pc = "exit" /\ reads = 1)

\* the bytes taken from standard input are the line "Y", with or without an
\* end-of-line marker
SaidY == stdinRead \in {<<"Y">>, <<"Y", "\n">>, <<"Y", "\r", "\n">>}

\* the run was confirmed and has returned
ConfirmedRunOver == pc = "exit" /\ reads = 1 /\ SaidY

\* the run was not confirmed and has returned
CancelledRunOver == pc = "exit" /\ reads = 1 /\ ~SaidY

\* an entry that is a file, reads without error and has a decodable name
Classifies(e) == e.io = "ok" /\ ~e.is_dir /\ e.name # NonUtf8Name

\* creation time a is earlier than b
Earlier(a, b) ==
    LET Key(t) == <<t.days, t.secs, t.nanos>>
    IN  \E i \in 1..3 :
            /\ Key(a)[i] < Key(b)[i]
            /\ \A h \in 1..(i - 1) : Key(a)[h] = Key(b)[h]

\* position of the entry called n in the scan
ScanPos(n) == CHOOSE i \in 1..Len(entries) : entries[i].name = n

\* number of indices of s at which P holds
Count(s, P(_)) == Cardinality({i \in 1..Len(s) : P(s[i])})

\* the scan reaches entry i: no read of an entry before it failed
Reached(i) == \A j \in 1..(i - 1) : entries[j].io # "entry"

RECURSIVE ItemsWhere(_, _)
\* the items among the first n whose attempt ended with outcome ok, in the
\* order of the collection
ItemsWhere(n, ok) ==
    IF n = 0 THEN <<>>
    ELSE IF attempts[n].ok = ok THEN Append(ItemsWhere(n - 1, ok), items[n])
    ELSE ItemsWhere(n - 1, ok)

(***************************************************************************)
(* C1, as stated: a rename is attempted only after one line was read and   *)
(* that line is exactly "Y"; after any other line, end of stream or a read *)
(* error no rename happens, the cancellation notice is printed and the     *)
(* exit status is 0; at most one line is ever read.                        *)
(***************************************************************************)
ConfirmationGate ==
    /\ reads <= 1
    /\ (reads = 0 => attempts = <<>> /\ pc # "rename")
    /\ ((attempts # <<>> \/ pc = "rename") => reads = 1 /\ SaidY)
    /\ (CancelledRunOver =>
            /\ attempts = <<>>
            /\ results = <<>>
            /\ fs = InitialFs(entries)
            /\ out[Len(out)] = "Renaming cancelled."
            /\ "\nRenamed items:" \notin Range(out)
            /\ exitCode = 0)

(***************************************************************************)
(* C2: in a confirmed run every item is attempted exactly once, and the    *)
(* successes and the failures together hold every item exactly once; an    *)
(* item is a success exactly when its rename succeeded.                    *)
(***************************************************************************)
PartitionComplete ==
    ConfirmedRunOver =>
        /\ Len(attempts) = Len(items)
        /\ Len(oks) + Len(errs) = Len(items)
        /\ \A i \in 1..Len(items) :
            LET IsAttempt(a) == a.src = items[i].path /\ a.dst = items[i].new_path
                IsItem(x) == x = items[i]
                IsError(x) == x.item = items[i]
                Succeeded(a) == IsAttempt(a) /\ a.ok
            IN  /\ Count(attempts, IsAttempt) = 1
                /\ Count(oks, IsItem) + Count(errs, IsError) = 1
                /\ (Count(oks, IsItem) = 1 <=> Count(attempts, Succeeded) = 1)

\* a confirmed run with a success and a failure
PartitionCompleteWitness ==
    /\ ConfirmedRunOver
    /\ Len(oks) = 1
    /\ Len(errs) = 1

(***************************************************************************)
(* C3: a failed rename neither stops the batch nor is retried, and nothing *)
(* that succeeded is undone: no item is attempted twice, in a confirmed    *)
(* run every item behind a failed one is attempted, a failed attempt       *)
(* leaves the directory as it was, and the directory changes only by a     *)
(* successful attempt and only at that attempt's source and target.        *)
(***************************************************************************)
BestEffortState ==
    /\ \A i, j \in 1..Len(attempts) : i # j => attempts[i].src # attempts[j].src
    /\ (ConfirmedRunOver =>
            \A i \in 1..Len(attempts) :
                ~attempts[i].ok =>
                    \A j \in (i + 1)..Len(items) :
                        /\ j <= Len(attempts)
                        /\ attempts[j].src = items[j].path
                        /\ attempts[j].dst = items[j].new_path)

BestEffortStep ==
    LET n == Len(attempts)
        made == Len(attempts') = n + 1
    IN  /\ Len(attempts') \in {n, n + 1}
        /\ SubSeq(attempts', 1, n) = attempts
        /\ (made /\ ~attempts'[n + 1].ok => fs' = fs)
        /\ (fs' # fs =>
                /\ made
                /\ attempts'[n + 1].ok
                /\ \A p \in (DOMAIN fs \cup DOMAIN fs')
                               \ {attempts'[n + 1].src, attempts'[n + 1].dst} :
                    p \in DOMAIN fs /\ p \in DOMAIN fs' /\ fs'[p] = fs[p])

BestEffort == []BestEffortState /\ [][BestEffortStep]_vars

\* the first rename failed and the second one was made and succeeded
BestEffortWitness ==
    /\ ConfirmedRunOver
    /\ Len(attempts) = 2
    /\ ~attempts[1].ok
    /\ attempts[2].ok
    /\ fs # InitialFs(entries)

(***************************************************************************)
(* C4: the exit status is 1 exactly when no positional argument was given  *)
(* (then nothing is printed on standard output, read or renamed) or the    *)
(* target directory could not be opened (then nothing is read or renamed); *)
(* otherwise it is 0, whatever fails per item.                             *)
(***************************************************************************)
ExitStatus ==
    LET NoArgument == Len(args) < 2
        ScanFails  == scan = "failed"
    IN  /\ (pc # "exit" => exitCode = NoExit)
        /\ (scan # "unopened" => ~NoArgument)
        /\ (scan = "opened" => <<args[2]>> = TargetDir)
        /\ (pc = "exit" =>
                /\ exitCode \in {0, 1}
                /\ (exitCode = 1 <=> (NoArgument \/ ScanFails))
                /\ (NoArgument =>
                        out = <<>> /\ reads = 0 /\ attempts = <<>> /\ fs = InitialFs(entries))
                /\ (ScanFails =>
                        reads = 0 /\ attempts = <<>> /\ fs = InitialFs(entries)))

(***************************************************************************)
(* C5: the collection holds exactly the entries that classify; an entry    *)
(* that fails (read error, no creation time, directory, undecodable name)  *)
(* is absent, has no preview line and no rename attempt, and neither ends  *)
(* the run nor removes another entry.                                      *)
(***************************************************************************)
ClassifiedExactly ==
    Scanned =>
        /\ Len(items) = Count(entries, Classifies)
        /\ \A i \in 1..Len(entries) :
            LET e == entries[i]
                IsOfEntry(x) == x.name = e.name /\ x.path = <<"d", e.name>>
                                    /\ x.created = e.created
                Previews(l) == l = "Rename: " \o e.name \o " -> " \o NewName(e.created, e.name)
                Renames(a) == a.src = <<"d", e.name>>
            IN  IF Classifies(e)
                THEN Count(items, IsOfEntry) = 1 /\ Count(out, Previews) = 1
                ELSE /\ \A j \in 1..Len(items) : items[j].path # <<"d", e.name>>
                     /\ Count(out, Previews) = 0
                     /\ Count(attempts, Renames) = 0
        /\ exitCode # 1

(***************************************************************************)
(* C6: the collection is sorted non-decreasing by created, is a            *)
(* permutation of the entries that classified (what the collecting yields, *)
(* none lost or doubled by the sorting), and items of equal created keep   *)
(* the order in which the scan yielded them.                               *)
(***************************************************************************)
SortedStable ==
    Scanned =>
        LET collected == Collect(dir, entries)
            Pos(x) == CHOOSE i \in 1..Len(collected) : collected[i] = x
        IN  /\ \A i, j \in 1..Len(items) :
                i < j => ~Earlier(items[j].created, items[i].created)
            /\ Len(items) = Len(collected)
            /\ \A i \in 1..Len(collected) :
                LET IsIt(x) == x = collected[i]
                IN  Count(items, IsIt) = 1 /\ Count(collected, IsIt) = 1
            /\ \A i, j \in 1..Len(items) :
                (i < j /\ items[i].created = items[j].created)
                    => /\ Pos(items[i]) < Pos(items[j])
                       /\ ScanPos(items[i].name) < ScanPos(items[j].name)

\* two items of equal created
SortedStableWitness ==
    /\ Scanned
    /\ Len(items) = 2
    /\ items[1].created = items[2].created

(***************************************************************************)
(* C7, as amended: every entry that the scan reaches and that classifies   *)
(* (a file whose entry, metadata and creation time are read and whose name *)
(* is valid UTF-8) yields exactly one item, and its new_name is the        *)
(* creation time's year, month, day, minute and second (no hours), one     *)
(* space, and the unchanged original name; the year has four digits and    *)
(* the stamp twelve when the year is within 0..9999, and a sign precedes   *)
(* the year otherwise.                                                     *)
(***************************************************************************)
\* year, month, day, minute, second, each zero-padded, the year to four digits
Stamp12(t) ==
    LET c == CivilFromDays(t.days)
    IN  Pad(c.year, 4) \o Pad(c.month, 2) \o Pad(c.day, 2)
            \o Pad((t.secs \div 60) % 60, 2) \o Pad(t.secs % 60, 2)

NameDerived ==
    Scanned =>
        \A i \in 1..Len(entries) :
            LET e == entries[i]
                y == CivilFromDays(e.created.days).year
                IsOfEntry(x) == x.name = e.name
            IN  (Reached(i) /\ Classifies(e)) =>
                    /\ Count(items, IsOfEntry) = 1
                    /\ \A j \in 1..Len(items) :
                        items[j].name = e.name =>
                            /\ (y \in 0..9999 =>
                                    /\ Len(Stamp12(e.created)) = 12
                                    /\ items[j].new_name = Stamp12(e.created) \o " " \o e.name)
                            /\ (y > 9999 =>
                                    items[j].new_name = "+" \o Stamp12(e.created) \o " " \o e.name)
                            /\ (e.created = T1 =>
                                    items[j].new_name = "202307040905 " \o e.name)
                            /\ (e.created \in {T2, T1Late} =>
                                    items[j].new_name = "202307040905 " \o e.name)
                            /\ (e.created = T3 =>
                                    items[j].new_name = "+10000" \o "0101" \o "5958 " \o e.name)

\* the file a created at 2023-07-04T00:09:05Z is the one item of two entries
NameDerivedWitness ==
    /\ Scanned
    /\ Len(entries) = 2
    /\ Len(items) = 1
    /\ items[1].created = T1
    /\ items[1].new_name = "202307040905 a"

\* C7 as stated: every file yields exactly one item whose new_name is twelve
\* digits, a space and the original name
NameDerivedAsStated ==
    Scanned =>
        \A i \in 1..Len(entries) :
            LET e == entries[i]
                IsOfEntry(x) == x.name = e.name
            IN  (~e.is_dir /\ e.io \in {"ok", "created"}) =>
                    /\ Count(items, IsOfEntry) = 1
                    /\ \A j \in 1..Len(items) :
                        items[j].name = e.name =>
                            /\ Len(Stamp12(e.created)) = 12
                            /\ items[j].new_name = Stamp12(e.created) \o " " \o e.name

(***************************************************************************)
(* C8: two items of identical created and different names have different  *)
(* new names and different target paths, and every target path has the     *)
(* parent of its source path.                                              *)
(***************************************************************************)
SameStampNoCollision ==
    Scanned =>
        /\ \A i, j \in 1..Len(items) :
            (items[i].created = items[j].created /\ items[i].name # items[j].name)
                => /\ items[i].new_name # items[j].new_name
                   /\ items[i].new_path # items[j].new_path
        /\ \A i \in 1..Len(items) :
            /\ items[i].new_name # ""
            /\ Len(items[i].new_path) = Len(items[i].path)
            /\ SubSeq(items[i].new_path, 1, Len(items[i].new_path) - 1)
                 = SubSeq(items[i].path, 1, Len(items[i].path) - 1)
            /\ items[i].new_path[Len(items[i].new_path)] = items[i].new_name

\* the files a and b, created in the same second
SameStampNoCollisionWitness ==
    /\ Scanned
    /\ Len(items) = 2
    /\ items[1].created = items[2].created
    /\ {items[1].name, items[2].name} = {"a", "b"}

(***************************************************************************)
(* C9: attempts are made in the order of the preview lines, with the paths *)
(* computed before the confirmation; all attempts are over before the      *)
(* first result line is printed; successes and failures are listed in the  *)
(* order of the collection.                                                *)
(***************************************************************************)
OrderPreserved ==
    /\ (Scanned =>
            /\ Len(out) >= Len(items) + 1
            /\ \A i \in 1..Len(items) :
                /\ out[i + 1] = "Rename: " \o items[i].name \o " -> " \o items[i].new_name
                /\ items[i].path = <<"d", items[i].name>>
                /\ items[i].new_path = <<"d", items[i].new_name>>)
    /\ Len(attempts) <= Len(items)
    /\ \A i \in 1..Len(attempts) :
        /\ attempts[i].src = items[i].path
        /\ attempts[i].dst = items[i].new_path
    /\ ("\nRenamed items:" \in Range(out) => Len(attempts) = Len(items))
    /\ (ConfirmedRunOver =>
            LET listing == <<"\nRenamed items:">>
                             \o [i \in 1..Len(oks) |->
                                   OkLine(ItemsWhere(Len(items), TRUE)[i])]
                             \o <<"\nFailed:">>
                             \o [i \in 1..Len(errs) |->
                                   OkLine(ItemsWhere(Len(items), FALSE)[i])
                                       \o ": " \o errs[i].reason]
                             \o <<"Ok">>
                printed == SubSeq(out, Len(items) + 2, Len(out))
            IN  /\ oks = ItemsWhere(Len(items), TRUE)
                /\ [i \in 1..Len(errs) |-> errs[i].item] = ItemsWhere(Len(items), FALSE)
                /\ Len(printed) <= Len(listing)
                /\ printed = SubSeq(listing, 1, Len(printed))
                /\ (outPart # "" =>
                        /\ Len(printed) < Len(listing)
                        /\ outPart = listing[Len(printed) + 1])
                /\ (exitCode = 0 => printed = listing /\ outPart = ""))

\* a confirmed run in which both renames failed
OrderPreservedWitness ==
    /\ ConfirmedRunOver
    /\ Len(errs) = 2
    /\ errs[1].item = items[1]

(***************************************************************************)
(* C10, as amended: two distinct items never share a target path; the      *)
(* target of one is the source of another exactly when the other's name is *)
(* the one's new name.  When no item's target path is the path of an entry *)
(* of the directory, every item's file stays its own (at the target once   *)
(* its rename succeeded, at the source before) and the directory keeps its *)
(* number of files.                                                        *)
(***************************************************************************)
NoTargetTaken ==
    \A i \in 1..Len(items) : items[i].new_path \notin DOMAIN InitialFs(entries)

TargetsDisjoint ==
    Scanned =>
        /\ \A i, j \in 1..Len(items) :
            i # j =>
                /\ items[i].new_path # items[j].new_path
                /\ (items[i].new_path = items[j].path
                        <=> items[j].name = items[i].new_name)
        /\ (NoTargetTaken =>
                /\ Cardinality(DOMAIN fs) = Cardinality(DOMAIN InitialFs(entries))
                /\ \A i \in 1..Len(items) :
                    IF i <= Len(attempts) /\ attempts[i].ok
                    THEN /\ items[i].path \notin DOMAIN fs
                         /\ items[i].new_path \in DOMAIN fs
                         /\ fs[items[i].new_path].id = items[i].name
                    ELSE /\ items[i].path \in DOMAIN fs
                         /\ fs[items[i].path].id = items[i].name)

\* a confirmed run of two items, both renamed, no target taken beforehand
TargetsDisjointWitness ==
    /\ ConfirmedRunOver
    /\ NoTargetTaken
    /\ Len(items) = 2
    /\ Len(oks) = 2

\* C10 as stated: no target path is another item's source or target path, and
\* when all renames succeed no file is lost and each is at its target
TargetsDisjointAsStated ==
    /\ (Scanned =>
            \A i, j \in 1..Len(items) :
                i # j =>
                    /\ items[i].new_path # items[j].path
                    /\ items[i].new_path # items[j].new_path)
    /\ ((ConfirmedRunOver /\ errs = <<>>) =>
            /\ Cardinality(DOMAIN fs) = Cardinality(DOMAIN InitialFs(entries))
            /\ \A i \in 1..Len(items) :
                /\ items[i].new_path \in DOMAIN fs
                /\ fs[items[i].new_path].id = items[i].name)

====
